---- MODULE Spec2Model ----
(***************************************************************************)
(* Chunked partial products (plonky2, src/util/partial_products.rs).       *)
(*                                                                         *)
(* The four operations of the file are pure functions; each is an operator *)
(* computed the way the Rust code computes it, and each call is an action  *)
(* of a small driver that keeps the arguments and the returned values in   *)
(* the state.  Three drivers share the operators:                          *)
(*   SpecProver    the flow of test_partial_products: accumulate, lay out, *)
(*                 verify with unit denominators, with one claimed partial *)
(*                 product possibly replaced before a second verification; *)
(*   SpecVerifier  check_partial_products and its in-circuit twin on       *)
(*                 arbitrary inputs that satisfy the contract;             *)
(*   SpecContract  the same two calls on inputs that may break the         *)
(*                 contract, in a debug or a release build.                *)
(***************************************************************************)
EXTENDS Integers, Sequences, FiniteSets

(***************************************************************************)
(* Bounds of the model.                                                    *)
(***************************************************************************)
\* longest input vector of the prover flow
MaxLen == 6
\* longest numerator/denominator vectors of the verifier flows
MaxPairLen == 4
\* largest chunk size
MaxDegree == 3
\* input values are drawn from these parts of the field
Vals == {0, 1, 2}
\* the verifier flow: numerators, denominators (zero included), accumulator;
\* its claimed partial products range over the whole field
NumeVals == {1, 2}
DenoVals == {0, 2}
AccVals == {0, 1, 2}

(***************************************************************************)
(* The field capability F: Field.  The code is generic in F; the model     *)
(* instantiates it with the prime field of order FieldOrder.               *)
(***************************************************************************)
FieldOrder == 7
FieldElems == 0 .. (FieldOrder - 1)
ZERO == 0
ONE == 1
Mul(a, b) == (a * b) % FieldOrder
Sub(a, b) == ((a + FieldOrder) - b) % FieldOrder
is_zero(a) == a = ZERO
\* F::from_canonical_u64
from_canonical_u64(i) == i % FieldOrder

\* iter().copied().product(): a left fold of Mul from ONE
RECURSIVE ProductFrom(_, _, _)
ProductFrom(s, k, acc) ==
    IF k > Len(s) THEN acc ELSE ProductFrom(s, k + 1, Mul(acc, s[k]))
Product(s) == ProductFrom(s, 1, ONE)

\* slice::chunks_exact(chunk_size), chunk_size > 0: the whole chunks, in order;
\* the remainder is dropped
chunks_exact(s, chunk_size) ==
    [k \in 1 .. (Len(s) \div chunk_size) |->
        SubSeq(s, (k - 1) * chunk_size + 1, k * chunk_size)]

Min(a, b) == IF a < b THEN a ELSE b

\* what a call leaves behind: not called yet, a returned value, or a panic
NotCalled == [st |-> "none", val |-> <<>>]
Returned(x) == [st |-> "ok", val |-> x]
Panicked == [st |-> "panic", val |-> <<>>]

(***************************************************************************)
(* partial_products                                                        *)
(***************************************************************************)
\* a faulty loop: the product of the chunk is pushed, not the accumulator
RECURSIVE partial_products_loop_pushes_chunk_product(_, _, _, _)
partial_products_loop_pushes_chunk_product(chunks, k, acc, res) ==
    IF k > Len(chunks) THEN res
    ELSE LET chunk_product == Product(chunks[k])
         IN  partial_products_loop_pushes_chunk_product(
                 chunks, k + 1, Mul(acc, chunk_product), Append(res, chunk_product))

\* the for loop of partial_products over the chunks, from chunk k on
RECURSIVE partial_products_loop(_, _, _, _)
partial_products_loop(chunks, k, acc, res) ==
    IF k > Len(chunks) THEN res
    ELSE LET acc1 == Mul(acc, Product(chunks[k]))
         IN  partial_products_loop(chunks, k + 1, acc1, Append(res, acc1))

\* slice::chunks(chunk_size): as chunks_exact, and a last shorter chunk for the
\* remainder
chunks(s, chunk_size) ==
    [k \in 1 .. ((Len(s) + chunk_size - 1) \div chunk_size) |->
        SubSeq(s, (k - 1) * chunk_size + 1, Min(k * chunk_size, Len(s)))]
\* a faulty partial_products: the remainder is folded in as a last chunk
partial_products_folds_remainder(v, max_degree, dbg) ==
    IF dbg /\ ~(max_degree > 1) THEN Panicked
    ELSE IF max_degree = 0 THEN Panicked
    ELSE Returned(partial_products_loop(chunks(v, max_degree), 1, ONE, <<>>))

\* dbg: the build has debug assertions
partial_products(v, max_degree, dbg) ==
    IF dbg /\ ~(max_degree > 1) THEN Panicked
    ELSE IF max_degree = 0 THEN Panicked
    ELSE Returned(partial_products_loop(chunks_exact(v, max_degree), 1, ONE, <<>>))

(***************************************************************************)
(* num_partial_products                                                    *)
(***************************************************************************)
\* a faulty num_partial_products: the division rounds up
num_partial_products_rounds_up(n, max_degree, dbg) ==
    IF dbg /\ ~(max_degree > 1) THEN Panicked
    ELSE IF max_degree = 0 THEN Panicked
    ELSE LET chunk_size == max_degree
             num_chunks == (n + chunk_size - 1) \div chunk_size
         IN  Returned(<<num_chunks, num_chunks * chunk_size>>)

num_partial_products(n, max_degree, dbg) ==
    IF dbg /\ ~(max_degree > 1) THEN Panicked
    ELSE IF max_degree = 0 THEN Panicked
    ELSE LET chunk_size == max_degree
             num_chunks == n \div chunk_size
         IN  Returned(<<num_chunks, num_chunks * chunk_size>>)

(***************************************************************************)
(* check_partial_products                                                  *)
(***************************************************************************)
\* a faulty loop: acc = new_acc is forgotten
RECURSIVE check_partial_products_loop_keeps_acc(_, _, _, _, _, _)
check_partial_products_loop_keeps_acc(nume_chunks, deno_chunks, partials, k, acc, res) ==
    IF k > Min(Len(nume_chunks), Len(deno_chunks)) THEN Returned(res)
    ELSE IF k > Len(partials) THEN Panicked
    ELSE LET acc1 == Mul(acc, Product(nume_chunks[k]))
             new_acc == partials[k]
             residual == Sub(acc1, Mul(new_acc, Product(deno_chunks[k])))
         IN  check_partial_products_loop_keeps_acc(
                 nume_chunks, deno_chunks, partials, k + 1, acc,
                 Append(res, residual))

\* a faulty loop: the residual is computed after acc = new_acc
RECURSIVE check_partial_products_loop_residual_after_update(_, _, _, _, _, _)
check_partial_products_loop_residual_after_update(nume_chunks, deno_chunks, partials, k, acc, res) ==
    IF k > Min(Len(nume_chunks), Len(deno_chunks)) THEN Returned(res)
    ELSE IF k > Len(partials) THEN Panicked
    ELSE LET acc1 == Mul(acc, Product(nume_chunks[k]))
             new_acc == partials[k]
             residual == Sub(new_acc, Mul(new_acc, Product(deno_chunks[k])))
         IN  check_partial_products_loop_residual_after_update(
                 nume_chunks, deno_chunks, partials, k + 1, new_acc,
                 Append(res, residual))

\* a faulty loop: the recomputed accumulator is carried forward, not the claimed one
RECURSIVE check_partial_products_loop_carries_recomputed(_, _, _, _, _, _)
check_partial_products_loop_carries_recomputed(nume_chunks, deno_chunks, partials, k, acc, res) ==
    IF k > Min(Len(nume_chunks), Len(deno_chunks)) THEN Returned(res)
    ELSE IF k > Len(partials) THEN Panicked
    ELSE LET acc1 == Mul(acc, Product(nume_chunks[k]))
             new_acc == partials[k]
             residual == Sub(acc1, Mul(new_acc, Product(deno_chunks[k])))
         IN  check_partial_products_loop_carries_recomputed(
                 nume_chunks, deno_chunks, partials, k + 1, acc1,
                 Append(res, residual))

\* a faulty loop: the residual leaves the denominators out
RECURSIVE check_partial_products_loop_ignores_denominators(_, _, _, _, _, _)
check_partial_products_loop_ignores_denominators(nume_chunks, deno_chunks, partials, k, acc, res) ==
    IF k > Min(Len(nume_chunks), Len(deno_chunks)) THEN Returned(res)
    ELSE IF k > Len(partials) THEN Panicked
    ELSE LET acc1 == Mul(acc, Product(nume_chunks[k]))
             new_acc == partials[k]
             residual == Sub(acc1, new_acc)
         IN  check_partial_products_loop_ignores_denominators(
                 nume_chunks, deno_chunks, partials, k + 1, new_acc,
                 Append(res, residual))

\* a faulty loop: acc *= new_acc for acc = new_acc
RECURSIVE check_partial_products_loop_multiplies_acc(_, _, _, _, _, _)
check_partial_products_loop_multiplies_acc(nume_chunks, deno_chunks, partials, k, acc, res) ==
    IF k > Min(Len(nume_chunks), Len(deno_chunks)) THEN Returned(res)
    ELSE IF k > Len(partials) THEN Panicked
    ELSE LET acc1 == Mul(acc, Product(nume_chunks[k]))
             new_acc == partials[k]
             residual == Sub(acc1, Mul(new_acc, Product(deno_chunks[k])))
         IN  check_partial_products_loop_multiplies_acc(
                 nume_chunks, deno_chunks, partials, k + 1, Mul(acc1, new_acc),
                 Append(res, residual))

\* the for loop of check_partial_products over the zipped chunks, from chunk
\* k on; partials.next() is partials[k]; unwrap() panics once it has run dry
RECURSIVE check_partial_products_loop(_, _, _, _, _, _)
check_partial_products_loop(nume_chunks, deno_chunks, partials, k, acc, res) ==
    IF k > Min(Len(nume_chunks), Len(deno_chunks)) THEN Returned(res)
    ELSE IF k > Len(partials) THEN Panicked
    ELSE LET acc1 == Mul(acc, Product(nume_chunks[k]))
             new_acc == partials[k]
             residual == Sub(acc1, Mul(new_acc, Product(deno_chunks[k])))
         IN  check_partial_products_loop(nume_chunks, deno_chunks, partials,
                                         k + 1, new_acc, Append(res, residual))

check_partial_products(numerators, denominators, partials, acc, max_degree, dbg) ==
    IF dbg /\ ~(max_degree > 1) THEN Panicked
    ELSE IF max_degree = 0 THEN Panicked
    ELSE LET nume_chunks == chunks_exact(numerators, max_degree)
             deno_chunks == chunks_exact(denominators, max_degree)
             out == check_partial_products_loop(nume_chunks, deno_chunks,
                                                partials, 1, acc, <<>>)
         IN  IF out.st = "ok" /\ dbg /\ Len(out.val) < Len(partials)
             THEN Panicked
             ELSE out

(***************************************************************************)
(* The circuit-builder capability.  A circuit is the sequence of the gates *)
(* emitted so far; a target is the position of the gate whose output it    *)
(* names.  Builder calls append gates and return the new target.           *)
(***************************************************************************)
Gate(op, a, b, c, k) == [op |-> op, a |-> a, b |-> b, c |-> c, k |-> k]
\* a wire whose value the witness assigns
add_virtual_extension_target(gates, x) ==
    [gates |-> Append(gates, Gate("input", 0, 0, 0, x)), out |-> Len(gates) + 1]
one_extension(gates) ==
    [gates |-> Append(gates, Gate("const", 0, 0, 0, ONE)), out |-> Len(gates) + 1]
mul_extension(gates, a, b) ==
    [gates |-> Append(gates, Gate("mul", a, b, 0, 0)), out |-> Len(gates) + 1]
\* a * b - c
mul_sub_extension(gates, a, b, c) ==
    [gates |-> Append(gates, Gate("mul_sub", a, b, c, 0)), out |-> Len(gates) + 1]
RECURSIVE mul_many_from(_, _, _, _)
mul_many_from(gates, terms, k, product) ==
    IF k > Len(terms) THEN [gates |-> gates, out |-> product]
    ELSE LET m == mul_extension(gates, product, terms[k])
         IN  mul_many_from(m.gates, terms, k + 1, m.out)
mul_many_extension(gates, terms) ==
    LET one == one_extension(gates)
    IN  mul_many_from(one.gates, terms, 1, one.out)

\* the value of target t once the witness is assigned
RECURSIVE Eval(_, _)
Eval(gates, t) ==
    LET g == gates[t]
    IN  CASE g.op = "mul" -> Mul(Eval(gates, g.a), Eval(gates, g.b))
          [] g.op = "mul_sub" ->
                Sub(Mul(Eval(gates, g.a), Eval(gates, g.b)), Eval(gates, g.c))
          [] OTHER -> g.k
EvalAll(gates, targets) == [i \in 1 .. Len(targets) |-> Eval(gates, targets[i])]

\* targets for the values xs, allocated in order
RECURSIVE add_targets_from(_, _, _, _)
add_targets_from(gates, xs, k, targets) ==
    IF k > Len(xs) THEN [gates |-> gates, out |-> targets]
    ELSE LET t == add_virtual_extension_target(gates, xs[k])
         IN  add_targets_from(t.gates, xs, k + 1, Append(targets, t.out))
add_targets(gates, xs) == add_targets_from(gates, xs, 1, <<>>)

(***************************************************************************)
(* check_partial_products_recursively                                      *)
(***************************************************************************)
\* a panic, or the circuit built and the returned targets
CircuitPanicked == [st |-> "panic", gates |-> <<>>, val |-> <<>>]

\* a faulty loop: the residual subtracts the denominator product, not
\* new_acc times it
RECURSIVE check_partial_products_recursively_loop_skips_new_acc(_, _, _, _, _, _, _)
check_partial_products_recursively_loop_skips_new_acc(gates, nume_chunks, deno_chunks, partials, k, acc, res) ==
    IF k > Min(Len(nume_chunks), Len(deno_chunks))
    THEN [st |-> "ok", gates |-> gates, val |-> res]
    ELSE IF k > Len(partials) THEN CircuitPanicked
    ELSE LET nume_product == mul_many_extension(gates, nume_chunks[k])
             deno_product == mul_many_extension(nume_product.gates, deno_chunks[k])
             new_acc == partials[k]
             new_acc_deno == mul_extension(deno_product.gates, new_acc,
                                           deno_product.out)
             residual == mul_sub_extension(new_acc_deno.gates, acc,
                                           nume_product.out, deno_product.out)
         IN  check_partial_products_recursively_loop_skips_new_acc(
                 residual.gates, nume_chunks, deno_chunks, partials, k + 1,
                 new_acc, Append(res, residual.out))

\* the for loop of check_partial_products_recursively, from chunk k on
RECURSIVE check_partial_products_recursively_loop(_, _, _, _, _, _, _)
check_partial_products_recursively_loop(gates, nume_chunks, deno_chunks, partials, k, acc, res) ==
    IF k > Min(Len(nume_chunks), Len(deno_chunks))
    THEN [st |-> "ok", gates |-> gates, val |-> res]
    ELSE IF k > Len(partials) THEN CircuitPanicked
    ELSE LET nume_product == mul_many_extension(gates, nume_chunks[k])
             deno_product == mul_many_extension(nume_product.gates, deno_chunks[k])
             new_acc == partials[k]
             new_acc_deno == mul_extension(deno_product.gates, new_acc,
                                           deno_product.out)
             residual == mul_sub_extension(new_acc_deno.gates, acc,
                                           nume_product.out, new_acc_deno.out)
         IN  check_partial_products_recursively_loop(
                 residual.gates, nume_chunks, deno_chunks, partials, k + 1,
                 new_acc, Append(res, residual.out))

check_partial_products_recursively(builder, numerators, denominators, partials, acc, max_degree, dbg) ==
    IF dbg /\ ~(max_degree > 1) THEN CircuitPanicked
    ELSE IF max_degree = 0 THEN CircuitPanicked
    ELSE LET nume_chunks == chunks_exact(numerators, max_degree)
             deno_chunks == chunks_exact(denominators, max_degree)
             out == check_partial_products_recursively_loop(
                        builder, nume_chunks, deno_chunks, partials, 1, acc, <<>>)
         IN  IF out.st = "ok" /\ dbg /\ Len(out.val) < Len(partials)
             THEN CircuitPanicked
             ELSE out

(***************************************************************************)
(* The drivers.                                                            *)
(***************************************************************************)
VARIABLES
    numerators,        \* v of partial_products, numerators of the checks
    denominators,
    partials,          \* the claimed partial products handed to the checks
    acc,               \* the initial accumulator handed to the checks
    max_degree,
    debug_assertions,  \* whether debug_assert! is compiled in
    p,                 \* what partial_products left behind
    nums,              \* what num_partial_products left behind
    res,               \* what check_partial_products left behind
    rres,              \* check_partial_products_recursively's residuals, evaluated
    fault,             \* the index of the replaced claimed partial product, or 0
    res0               \* the residuals returned before the replacement

vars == <<numerators, denominators, partials, acc, max_degree, debug_assertions,
          p, nums, res, rres, fault, res0>>

SeqsUpTo(S, n) == UNION {[1 .. k -> S] : k \in 0 .. n}
Ones(n) == [k \in 1 .. n |-> ONE]
\* the vector of test_partial_products
TestVector == [k \in 1 .. 6 |-> from_canonical_u64(k)]

NothingCalled ==
    /\ p = NotCalled
    /\ nums = NotCalled
    /\ res = NotCalled
    /\ rres = NotCalled
    /\ fault = 0
    /\ res0 = NotCalled

\* the prover's inputs: a vector, a chunk size, unit denominators
InitProver ==
    /\ numerators \in SeqsUpTo(Vals, MaxLen) \cup {TestVector}
    /\ denominators = Ones(Len(numerators))
    /\ partials = <<>>
    /\ acc = ONE
    /\ max_degree \in 2 .. MaxDegree
    /\ debug_assertions = TRUE
    /\ NothingCalled

\* the verifier's inputs: anything that satisfies the contract
InitVerifier ==
    /\ \E n \in 0 .. MaxPairLen :
          /\ numerators \in [1 .. n -> NumeVals]
          /\ denominators \in [1 .. n -> DenoVals]
    /\ max_degree \in 2 .. MaxDegree
    /\ partials \in [1 .. (Len(numerators) \div max_degree) -> FieldElems]
    /\ acc \in AccVals
    /\ debug_assertions = TRUE
    /\ NothingCalled

\* inputs that may break the contract, in either build
InitContract ==
    /\ numerators \in SeqsUpTo(Vals, MaxPairLen)
    /\ denominators = Ones(Len(numerators))
    /\ max_degree \in 0 .. MaxDegree
    /\ partials \in SeqsUpTo(Vals, (MaxPairLen \div 2) + 1)
    /\ acc = ONE
    /\ debug_assertions \in BOOLEAN
    /\ NothingCalled

\* let p = partial_products(&v, max_degree); p is what the checks are handed
CallPartialProducts ==
    /\ p.st = "none"
    /\ p' = partial_products(numerators, max_degree, debug_assertions)
    /\ partials' = IF p'.st = "ok" THEN p'.val ELSE partials
    /\ UNCHANGED <<numerators, denominators, acc, max_degree, debug_assertions,
                   nums, res, rres, fault, res0>>

\* let nums = num_partial_products(v.len(), max_degree)
CallNumPartialProducts ==
    /\ nums.st = "none"
    /\ nums' = num_partial_products(Len(numerators), max_degree, debug_assertions)
    /\ UNCHANGED <<numerators, denominators, partials, acc, max_degree,
                   debug_assertions, p, res, rres, fault, res0>>

\* check_partial_products(&numerators, &denominators, &partials, acc, max_degree)
CallCheckPartialProducts ==
    /\ res.st = "none"
    /\ res' = check_partial_products(numerators, denominators, partials, acc,
                                     max_degree, debug_assertions)
    /\ UNCHANGED <<numerators, denominators, partials, acc, max_degree,
                   debug_assertions, p, nums, rres, fault, res0>>

\* the prover verifies what it accumulated
ProverCheckPartialProducts ==
    /\ p.st = "ok"
    /\ CallCheckPartialProducts

\* check_partial_products_recursively, once the reference check has run, on
\* fresh targets in a builder that holds nothing else; the witness assigns the targets the values of the arguments,
\* and rres keeps the values the returned targets then take
CallCheckPartialProductsRecursively ==
    /\ rres.st = "none"
    /\ res.st # "none"
    /\ LET n == add_targets(<<>>, numerators)
           d == add_targets(n.gates, denominators)
           c == add_targets(d.gates, partials)
           a == add_virtual_extension_target(c.gates, acc)
       IN  \E out \in {check_partial_products_recursively(
                           a.gates, n.out, d.out, c.out, a.out, max_degree,
                           debug_assertions)} :
              rres' = IF out.st = "ok"
                      THEN Returned(EvalAll(out.gates, out.val))
                      ELSE Panicked
    /\ UNCHANGED <<numerators, denominators, partials, acc, max_degree,
                   debug_assertions, p, nums, res, fault, res0>>

\* one claimed partial product is replaced by a different field element after
\* a first verification; the verification can then be run again
Tamper ==
    /\ res.st = "ok"
    /\ fault = 0
    /\ \E i \in 1 .. Len(partials) :
          \E x \in FieldElems \ {partials[i]} :
             /\ partials' = [partials EXCEPT ![i] = x]
             /\ fault' = i
    /\ res0' = res
    /\ res' = NotCalled
    /\ UNCHANGED <<numerators, denominators, acc, max_degree, debug_assertions,
                   p, nums, rres>>

NextProver ==
    \/ CallPartialProducts
    \/ CallNumPartialProducts
    \/ ProverCheckPartialProducts
    \/ Tamper

NextVerifier ==
    \/ CallCheckPartialProducts
    \/ CallCheckPartialProductsRecursively

SpecProver == InitProver /\ [][NextProver]_vars
SpecVerifier == InitVerifier /\ [][NextVerifier]_vars
SpecContract == InitContract /\ [][NextVerifier]_vars

(***************************************************************************)
(* The properties.  Products are restated here from their definition, one  *)
(* factor at a time from the right, independently of the folds above.      *)
(***************************************************************************)
\* the product of s[lo .. hi]
RECURSIVE RangeProduct(_, _, _)
RangeProduct(s, lo, hi) ==
    IF hi < lo THEN 1 ELSE (RangeProduct(s, lo, hi - 1) * s[hi]) % FieldOrder
\* the product of the leading m elements of s
PrefixProduct(s, m) == RangeProduct(s, 1, m)
\* the product of chunk i (from 1) of s
ChunkProduct(s, i) == RangeProduct(s, (i - 1) * max_degree + 1, i * max_degree)
AllZero(s) == \A i \in 1 .. Len(s) : is_zero(s[i])
NumChunks == Len(numerators) \div max_degree

C2_LayoutMatchesAccumulate ==
    /\ nums.st = "ok" =>
          /\ nums.val[1] = Len(numerators) \div max_degree
          /\ nums.val[2] = nums.val[1] * max_degree
          /\ nums.val[2] <= Len(numerators)
    /\ (nums.st = "ok" /\ p.st = "ok") => nums.val[1] = Len(p.val)
C2_Witness ==
    /\ nums.st = "ok"
    /\ p.st = "ok"
    /\ nums.val[1] >= 2
    /\ nums.val[2] < Len(numerators)

\* C3: round trip: the partial products of v, checked against v with unit
\* denominators and the initial accumulator ONE, leave only zero residuals.
C3_RoundTrip ==
    (p.st = "ok" /\ fault = 0 /\ res.st # "none") =>
        /\ res.st = "ok"
        /\ AllZero(res.val)
C3_Witness ==
    /\ p.st = "ok"
    /\ fault = 0
    /\ res.st = "ok"
    /\ Len(res.val) >= 2
    /\ ~is_zero(partials[1])
    /\ partials[1] # partials[2]

\* C5: tamper sensitivity: with one computed partial product replaced by a
\* different field element, the check leaves a non-zero residual.
C5_TamperIsDetected ==
    (fault # 0 /\ res.st # "none") =>
        /\ res.st = "ok"
        /\ ~AllZero(res.val)
\* the last of several partial products was replaced
C5_Witness ==
    /\ fault # 0
    /\ res.st = "ok"
    /\ fault = Len(partials)
    /\ fault >= 2

C10_NoResidualAfterTheFaultChanges ==
    (fault # 0 /\ res.st = "ok" /\ res0.st = "ok") =>
        \A j \in (fault + 1) .. Len(res.val) : res.val[j] = res0.val[j]
\* C10, amended: a faulty claimed partial product at chunk i changes no
\* residual after chunk i+1 (residual i+1 is computed from the claimed
\* partials[i], which is the accumulator carried into chunk i+1).
C10_NoResidualPastTheNextChanges ==
    (fault # 0 /\ res.st = "ok" /\ res0.st = "ok") =>
        /\ Len(res.val) = Len(res0.val)
        /\ \A j \in (fault + 2) .. Len(res.val) : res.val[j] = res0.val[j]
\* the first of three claimed partial products was faulty and the second
\* residual changed with it
C10_Witness ==
    /\ fault = 1
    /\ res.st = "ok"
    /\ res0.st = "ok"
    /\ Len(res.val) >= 3
    /\ res.val[2] # res0.val[2]
    /\ ~is_zero(numerators[Len(numerators)])

\* the accumulator that enters chunk i: the initial one, then the claimed
\* partial product of the chunk before
PrevAcc(i) == IF i = 1 THEN acc ELSE partials[i - 1]
\* the residual of chunk i as the specification words it
ResidualOf(i) ==
    Sub(Mul(PrevAcc(i), ChunkProduct(numerators, i)),
        Mul(partials[i], ChunkProduct(denominators, i)))

\* C9: on inputs that satisfy the contract check_partial_products returns one
\* residual per whole chunk, in chunk order, residual i being
\* prev_i * product(numerator chunk i) - partials[i] * product(denominator
\* chunk i) with prev_0 the initial accumulator and prev_i = partials[i-1].
C9_ResidualPerChunk ==
    res.st # "none" =>
        /\ res.st = "ok"
        /\ Len(res.val) = NumChunks
        /\ \A i \in 1 .. NumChunks : res.val[i] = ResidualOf(i)
\* the first claimed partial product is not the recomputed one, and the second
\* residual, computed from the claimed one, is non-zero
C9_Witness ==
    /\ res.st = "ok"
    /\ Len(res.val) >= 2
    /\ partials[1] # Mul(acc, ChunkProduct(numerators, 1))
    /\ ~is_zero(partials[1])
    /\ ~is_zero(res.val[2])

\* C4: evaluated on the witness, the targets check_partial_products_recursively
\* returns take exactly the residuals check_partial_products returns on the
\* same arguments: as many, in the same order.
C4_CircuitMatchesReference ==
    (res.st # "none" /\ rres.st # "none") => rres = res
C4_Witness ==
    /\ res.st = "ok"
    /\ rres.st = "ok"
    /\ Len(rres.val) >= 2
    /\ ~is_zero(rres.val[1])
    /\ rres.val[1] # rres.val[2]
    /\ ~is_zero(Mul(partials[1], ChunkProduct(denominators, 1)))

\* the claim is consistent as a whole: every claimed partial product, times
\* the denominators of the chunks up to it, is the initial accumulator times
\* the numerators of those chunks
FullyConsistent ==
    \A i \in 1 .. Len(partials) :
        Mul(partials[i], PrefixProduct(denominators, i * max_degree))
          = Mul(acc, PrefixProduct(numerators, i * max_degree))
NoZeroDenominator == \A k \in 1 .. Len(denominators) : ~is_zero(denominators[k])

\* C6 as stated: all residuals are zero if and only if the claim is fully
\* consistent.
C6_AllZeroIffFullyConsistent ==
    res.st = "ok" => (AllZero(res.val) <=> FullyConsistent)
\* C6, amended: all residuals zero implies the claim is fully consistent; and
\* when no denominator is zero, a fully consistent claim leaves only zero
\* residuals.
C6_AllZeroIffFullyConsistentWithoutZeroDenominators ==
    res.st = "ok" =>
        /\ AllZero(res.val) => FullyConsistent
        /\ NoZeroDenominator => (FullyConsistent => AllZero(res.val))
\* a consistent claim over two chunks with non-zero denominators, accumulator
\* and partial products
C6_Witness ==
    /\ res.st = "ok"
    /\ Len(res.val) >= 2
    /\ NoZeroDenominator
    /\ FullyConsistent
    /\ AllZero(res.val)
    /\ ~is_zero(acc)
    /\ partials[1] # partials[2]

\* the contract of the two checks is broken: a chunk size of at most 1, or a
\* number of claimed partial products that is not the number of chunks
ContractViolated ==
    \/ max_degree <= 1
    \/ Len(partials) # Len(numerators) \div max_degree

\* C8: a contract violation aborts check_partial_products and
\* check_partial_products_recursively: neither returns a list of residuals.
C8_ContractViolationAborts ==
    ContractViolated => (res.st # "ok" /\ rres.st # "ok")

====
